---- MODULE Spec2Model ----
(***************************************************************************)
(* Model of python_api/app.py: the health heuristic, the projection        *)
(* engine predict_future_twin and the Flask handler handle_prediction.     *)
(*                                                                         *)
(* Units of the scaled integer arithmetic:                                 *)
(*   avg_sleep_hours           tenths of an hour        (7.0 h  = 70)      *)
(*   increase (percent points) tenths of a percent      (10.0 % = 100)     *)
(*   sleep_factor              thousandths              (1.10   = 1100)    *)
(*   health_percent_increase   thousandths of a percent                    *)
(*   salary estimate           eighths of a unit (exact binary fractions)  *)
(*   rounded salary            hundredths of a unit                        *)
(*   probabilities             integer weights (votes), not normalised     *)
(***************************************************************************)
EXTENDS Integers, Sequences, FiniteSets, TLC

VARIABLES
    argsortTie,         \* the build's order among equal keys in np.argsort
    salaryFile,         \* models/salary_predictor_model.joblib on disk
    jobFile,            \* models/job_classifier_model.joblib on disk
    request,            \* the HTTP request handle_prediction is serving
    response,           \* what handle_prediction answered
    pc,                 \* position in handle_prediction / predict_future_twin
    user_input_data,    \* the dict object passed to predict_future_twin
    projection_months,  \* the horizon passed to predict_future_twin
    local,              \* the locals of predict_future_twin
    result,             \* what predict_future_twin returned or raised
    probe,              \* observation: loads, predictor calls, except branches
    callerProfile,      \* the dict as the caller built it
    firstCall,          \* observation: the first completed engine call
    hcall,              \* a pair of calls of predict_health_increase
    topk                \* an application of lines 101-102 to a probability vector

vars == <<argsortTie, salaryFile, jobFile, request, response, pc,
          user_input_data, projection_months, local, result, probe,
          callerProfile, firstCall, hcall, topk>>

---------------------------------------------------------------------------
(* Bounds of the model *)

MaxSleepTenths == 150
MaxClasses == 4
MaxProb == 2
MaxRequests == 3

---------------------------------------------------------------------------
(* Arithmetic helpers *)

Max(a, b) == IF a >= b THEN a ELSE b
Min(a, b) == IF a <= b THEN a ELSE b

\* Python's round(): the nearest multiple, an exact tie going to the even one.
\* num / den is exact in the scaled arithmetic, so the tie test is exact too.
RoundHalfEven(num, den) ==
    LET q == num \div den
        r == num % den
    IN  IF 2 * r < den THEN q
        ELSE IF 2 * r > den THEN q + 1
        ELSE IF q % 2 = 0 THEN q ELSE q + 1

---------------------------------------------------------------------------
(* 1. predict_health_increase *)

base_factor == 1000
optimal_sleep_min == 70
optimal_sleep_max == 85
max_increase_percent == 100

\* Mutation: the two penalty slopes exchanged.
predict_health_increase_swapped(avg_sleep_hours) ==
    LET increase ==
            IF optimal_sleep_min <= avg_sleep_hours /\ avg_sleep_hours <= optimal_sleep_max
            THEN max_increase_percent
            ELSE IF avg_sleep_hours < optimal_sleep_min
            THEN Max(0, max_increase_percent - ((optimal_sleep_min - avg_sleep_hours) * 2))
            ELSE Max(0, max_increase_percent - ((avg_sleep_hours - optimal_sleep_max) * 5))
    IN  base_factor + increase

predict_health_increase(avg_sleep_hours) ==
    LET increase ==
            IF optimal_sleep_min <= avg_sleep_hours /\ avg_sleep_hours <= optimal_sleep_max
            THEN max_increase_percent
            ELSE IF avg_sleep_hours < optimal_sleep_min
            THEN Max(0, max_increase_percent - ((optimal_sleep_min - avg_sleep_hours) * 5))
            ELSE Max(0, max_increase_percent - ((avg_sleep_hours - optimal_sleep_max) * 2))
    IN  base_factor + increase

---------------------------------------------------------------------------
(* 2. Top-3 selection, lines 101-102 *)

TopCount == 3

ClassNames == <<"A", "B", "C", "D", "E", "F">>

\* np.argsort(probas): the indices in ascending order of probability.  The
\* default kind is an unstable sort, so the order among equal probabilities
\* is whatever the build produces; tie[i] < tie[j] puts i before j.
Argsort(probas, tie) ==
    LET n == Len(probas)
        Before(i, j) == \/ probas[i] < probas[j]
                        \/ probas[i] = probas[j] /\ tie[i] < tie[j]
        Rank(i) == Cardinality({j \in 1..n : Before(j, i)}) + 1
    IN  [k \in 1..n |-> CHOOSE i \in 1..n : Rank(i) = k]

\* a[::-1]
Reversed(a) == [k \in 1..Len(a) |-> a[Len(a) + 1 - k]]

\* a[:m]
Prefix(a, m) == [k \in 1..Min(m, Len(a)) |-> a[k]]

\* Mutation: the [::-1] forgotten, so the three least likely classes come out.
TopIndicesAscending(probas, tie) == Prefix(Argsort(probas, tie), TopCount)

\* np.argsort(probas)[::-1][:3]
TopIndices(probas, tie) == Prefix(Reversed(Argsort(probas, tie)), TopCount)

\* [classes[i] for i in top_indices]
JobsAt(classes, top_indices) == [k \in 1..Len(top_indices) |-> classes[top_indices[k]]]

---------------------------------------------------------------------------
(* 3. Data: profiles, artifacts, requests *)

\* twin_df[['education', 'location', 'title', 'industry', 'age',
\*          'tenure_months', 'remote_flag']]
FeatureColumns ==
    {"education", "location", "title", "industry", "age", "tenure_months", "remote_flag"}

CategoricalOrBoolean == {"education", "location", "title", "industry", "remote_flag"}

\* d without key k
Without(d, k) == [f \in (DOMAIN d) \ {k} |-> d[f]]

FullProfiles ==
    { [age |-> 30, tenure_months |-> 0, education |-> "Bachelors", location |-> "Austin",
       title |-> "Engineer", industry |-> "Tech", remote_flag |-> TRUE,
       avg_sleep_hours |-> 62],
      [age |-> 30, tenure_months |-> 10, education |-> "Masters", location |-> "Austin",
       title |-> "Analyst", industry |-> "Finance", remote_flag |-> FALSE,
       avg_sleep_hours |-> 93] }

\* A profile as a client can send it: complete, or with one key left out.
Profiles ==
    FullProfiles \cup
    { Without(p, k) : p \in FullProfiles, k \in FeatureColumns \cup {"avg_sleep_hours"} }

\* What joblib.load finds at SALARY_MODEL_FILE: no readable file, a pipeline
\* fit against another column schema (predict raises), or the pipeline of
\* train_models.py: a LinearRegression over the passed-through numeric columns.
SalaryArtifacts ==
    { [kind |-> "absent",       intercept |-> 0,   coef_age |-> 0, coef_tenure |-> 0],
      [kind |-> "incompatible", intercept |-> 0,   coef_age |-> 0, coef_tenure |-> 0],
      [kind |-> "fitted",       intercept |-> -44, coef_age |-> 1, coef_tenure |-> 1],
      [kind |-> "fitted",       intercept |-> 401, coef_age |-> 1, coef_tenure |-> 1] }

\* What joblib.load finds at JOB_MODEL_FILE.  A fitted classifier is its
\* classes_ and a probability vector per leaf; one split on tenure_months
\* stands for the forest.
JobArtifacts ==
    { [kind |-> "absent", classes |-> <<>>, split |-> 0, junior |-> <<>>, senior |-> <<>>],
      [kind |-> "incompatible", classes |-> <<>>, split |-> 0, junior |-> <<>>,
       senior |-> <<>>],
      [kind |-> "fitted", classes |-> <<"A", "B", "C", "D">>, split |-> 24,
       junior |-> <<1, 4, 4, 1>>, senior |-> <<0, 2, 3, 5>>],
      [kind |-> "fitted", classes |-> <<"A", "B">>, split |-> 12,
       junior |-> <<1, 1>>, senior |-> <<3, 1>>] }

\* salary_pipeline.predict(X_salary)[0], in eighths
SalaryEstimate(pipeline, X) ==
    pipeline.intercept + pipeline.coef_age * X.age + pipeline.coef_tenure * X.tenure_months

\* job_pipeline.predict_proba(X_job)[0]
PredictProba(pipeline, X) ==
    IF X.tenure_months >= pipeline.split THEN pipeline.senior ELSE pipeline.junior

NoPipeline == [kind |-> "None"]

\* Values of the local predicted_salary: None, a float or a numpy float64.
NoneValue == [tag |-> "None", v |-> 0]
Float64(v) == [tag |-> "float64", v |-> v]

\* Mutation: another fallback number in the except branch.
SalaryFallbackZero == [tag |-> "float", v |-> 0]

\* predicted_salary = -1.0 (line 87), in eighths
SalaryFallback == [tag |-> "float", v |-> -8]

\* recommended_jobs = None (line 70); a fitted classifier has at least one
\* class, so the empty sequence stands for None.
NoJobs == <<>>

\* recommended_jobs = ["N/A"] (line 106)
JobsFallback == <<"N/A">>

\* The string "N/A" in place of the salary, and a rounded float.
NotAvailable == [tag |-> "str", v |-> 0]
Rounded(cents) == [tag |-> "float", v |-> cents]

\* Values of data['projection_months'] in a JSON body.
MonthsValues ==
    { [type |-> "int", v |-> m] : m \in {0, 6, 12, 24, 60} } \cup
    { [type |-> "float", v |-> 6], [type |-> "str", v |-> 24], [type |-> "bool", v |-> 1] }

AnyProfile == CHOOSE p \in FullProfiles : TRUE
AnyMonths == [type |-> "int", v |-> 6]

\* The requests that reach handle_prediction: not JSON; JSON that is no
\* container (null, a number); a JSON list; a JSON object with some of the
\* two keys.  Fields a request does not carry hold a placeholder.
Requests ==
    { [is_json |-> FALSE, json |-> "object", keys |-> {}, user_data |-> AnyProfile,
       projection_months |-> AnyMonths] } \cup
    { [is_json |-> TRUE, json |-> j, keys |-> {}, user_data |-> AnyProfile,
       projection_months |-> AnyMonths] : j \in {"null", "number", "list", "object"} } \cup
    { [is_json |-> TRUE, json |-> "object", keys |-> {"user_data"}, user_data |-> p,
       projection_months |-> AnyMonths] : p \in {AnyProfile} } \cup
    { [is_json |-> TRUE, json |-> "object", keys |-> {"projection_months"},
       user_data |-> AnyProfile, projection_months |-> m] : m \in {AnyMonths} } \cup
    { [is_json |-> TRUE, json |-> "object", keys |-> {"user_data", "projection_months"},
       user_data |-> AnyProfile, projection_months |-> m] : m \in MonthsValues } \cup
    { [is_json |-> TRUE, json |-> "object", keys |-> {"user_data", "projection_months"},
       user_data |-> p, projection_months |-> [type |-> "int", v |-> m]] :
         p \in Profiles, m \in {6, 24, 60} }

\* What a direct caller of predict_future_twin passes: the engine checks
\* neither the horizon nor the keys.
DirectProfiles ==
    FullProfiles \cup { Without(AnyProfile, k) : k \in {"age", "industry", "avg_sleep_hours"} }

DirectHorizons == {-1, 6, 11, 24, 60}

---------------------------------------------------------------------------
(* 4. predict_future_twin, step by step *)

NoResult == [kind |-> "none"]
Raised(exc) == [kind |-> "raise", exc |-> exc]

NoResponse == [status |-> 0, body |-> NoResult]
ErrorResponse(code, message) == [status |-> code, body |-> [kind |-> "error", error |-> message]]

LocalsAtEntry ==
    [projected_age |-> 0, projected_tenure |-> 0, health_percent_increase |-> 0,
     twin_df |-> <<>>, salary_pipeline |-> NoPipeline, job_pipeline |-> NoPipeline,
     predicted_salary |-> NoneValue, recommended_jobs |-> NoJobs]

\* salary_loads, job_loads: successful joblib.load calls of this process;
\* the other fields are about the engine call in progress.
ProbeAtStart ==
    [salary_loads |-> 0, job_loads |-> 0, served |-> 0, engine_entered |-> FALSE,
     salary_predicts |-> 0, job_predicts |-> 0,
     salary_except |-> FALSE, job_except |-> FALSE]

ProbeAtEntry(entered) ==
    [probe EXCEPT !.served = @ + 1, !.engine_entered = entered,
                  !.salary_predicts = 0, !.job_predicts = 0,
                  !.salary_except = FALSE, !.job_except = FALSE]

\* Mutation: months rounded to the nearest year instead of truncated.
age_increase_years_rounded(months) == (months + 6) \div 12

\* projection_months // 12
age_increase_years(months) == months \div 12

DefaultSleepHours == 75

\* {**user_input_data, 'age': projected_age, 'tenure_months': projected_tenure}
TwinRecord(data, age, tenure) ==
    [k \in (DOMAIN data) \cup {"age", "tenure_months"} |->
        IF k = "age" THEN age ELSE IF k = "tenure_months" THEN tenure ELSE data[k]]

\* Mutation: the projected values written into the argument itself.
DictUpdatedInPlace(data, twin) == twin

\* The argument after the dict display of lines 62-66: the display builds a
\* new dict, the argument keeps its items.
DictAfterSpread(data, twin) == data

\* round(float(predicted_salary), 2) if isinstance(predicted_salary,
\* (float, np.float64)) and predicted_salary != -1.0 else "N/A"
\* (-1.0 is -8 eighths; eighths to hundredths is times 100 over 8)
PackagedSalary(predicted_salary) ==
    IF predicted_salary.tag \in {"float", "float64"} /\ predicted_salary.v # -8
    THEN Rounded(RoundHalfEven(predicted_salary.v * 100, 8))
    ELSE NotAvailable

\* Lines 51-53.  A missing 'age' or 'tenure_months' raises KeyError out of
\* the function.
TimeProjection ==
    /\ pc = "time_projection"
    /\ IF {"age", "tenure_months"} \subseteq DOMAIN user_input_data
       THEN /\ local' = [local EXCEPT
                   !.projected_age =
                       user_input_data.age + age_increase_years(projection_months),
                   !.projected_tenure = user_input_data.tenure_months + projection_months]
            /\ pc' = "health_prediction"
            /\ UNCHANGED result
       ELSE /\ result' = Raised("KeyError")
            /\ pc' = "engine_raised"
            /\ UNCHANGED local
    /\ UNCHANGED <<argsortTie, salaryFile, jobFile, request, response, user_input_data,
                   projection_months, probe, callerProfile, firstCall, hcall, topk>>

\* Lines 57-58.
HealthPrediction ==
    /\ pc = "health_prediction"
    /\ LET sleep == IF "avg_sleep_hours" \in DOMAIN user_input_data
                    THEN user_input_data.avg_sleep_hours ELSE DefaultSleepHours
           sleep_factor == predict_health_increase(sleep)
       IN  local' = [local EXCEPT !.health_percent_increase = (sleep_factor - base_factor) * 100]
    /\ pc' = "setup_dataframe"
    /\ UNCHANGED <<argsortTie, salaryFile, jobFile, request, response, user_input_data,
                   projection_months, result, probe, callerProfile, firstCall, hcall, topk>>

\* Lines 62-70.
SetupDataFrame ==
    /\ pc = "setup_dataframe"
    /\ LET twin == TwinRecord(user_input_data, local.projected_age, local.projected_tenure)
       IN  /\ local' = [local EXCEPT !.twin_df = twin,
                                     !.predicted_salary = NoneValue,
                                     !.recommended_jobs = NoJobs]
           /\ user_input_data' = DictAfterSpread(user_input_data, twin)
    /\ pc' = "salary_load"
    /\ UNCHANGED <<argsortTie, salaryFile, jobFile, request, response,
                   projection_months, result, probe, callerProfile, firstCall, hcall, topk>>

\* Line 75, and lines 85-87 when joblib.load raises.
SalaryLoad ==
    /\ pc = "salary_load"
    /\ IF salaryFile.kind = "absent"
       THEN /\ local' = [local EXCEPT !.predicted_salary = SalaryFallback]
            /\ probe' = [probe EXCEPT !.salary_except = TRUE]
            /\ pc' = "job_load"
       ELSE /\ local' = [local EXCEPT !.salary_pipeline = salaryFile]
            /\ probe' = [probe EXCEPT !.salary_loads = @ + 1]
            /\ pc' = "salary_predict"
    /\ UNCHANGED <<argsortTie, salaryFile, jobFile, request, response, user_input_data,
                   projection_months, result, callerProfile, firstCall, hcall, topk>>

\* Lines 81-84, and lines 85-87 when the column selection (KeyError) or the
\* pipeline raises.
SalaryPredict ==
    /\ pc = "salary_predict"
    /\ LET selectable == FeatureColumns \subseteq DOMAIN local.twin_df
           raises == ~selectable \/ local.salary_pipeline.kind = "incompatible"
       IN  /\ local' = [local EXCEPT !.predicted_salary =
                   IF raises THEN SalaryFallback
                   ELSE Float64(SalaryEstimate(local.salary_pipeline, local.twin_df))]
           /\ probe' = [probe EXCEPT !.salary_predicts = @ + (IF selectable THEN 1 ELSE 0),
                                     !.salary_except = raises]
    /\ pc' = "job_load"
    /\ UNCHANGED <<argsortTie, salaryFile, jobFile, request, response, user_input_data,
                   projection_months, result, callerProfile, firstCall, hcall, topk>>

\* Line 92, and lines 104-106 when joblib.load raises.
JobLoad ==
    /\ pc = "job_load"
    /\ IF jobFile.kind = "absent"
       THEN /\ local' = [local EXCEPT !.recommended_jobs = JobsFallback]
            /\ probe' = [probe EXCEPT !.job_except = TRUE]
            /\ pc' = "final_package"
       ELSE /\ local' = [local EXCEPT !.job_pipeline = jobFile]
            /\ probe' = [probe EXCEPT !.job_loads = @ + 1]
            /\ pc' = "job_predict"
    /\ UNCHANGED <<argsortTie, salaryFile, jobFile, request, response, user_input_data,
                   projection_months, result, callerProfile, firstCall, hcall, topk>>

\* Lines 95-102, and lines 104-106 when the column selection or the
\* pipeline raises.
JobPredict ==
    /\ pc = "job_predict"
    /\ LET selectable == FeatureColumns \subseteq DOMAIN local.twin_df
           raises == ~selectable \/ local.job_pipeline.kind = "incompatible"
           probas == PredictProba(local.job_pipeline, local.twin_df)
           classes == local.job_pipeline.classes
           top_indices == TopIndices(probas, argsortTie)
       IN  /\ local' = [local EXCEPT !.recommended_jobs =
                   IF raises THEN JobsFallback ELSE JobsAt(classes, top_indices)]
           /\ probe' = [probe EXCEPT !.job_predicts = @ + (IF selectable THEN 1 ELSE 0),
                                     !.job_except = raises]
    /\ pc' = "final_package"
    /\ UNCHANGED <<argsortTie, salaryFile, jobFile, request, response, user_input_data,
                   projection_months, result, callerProfile, firstCall, hcall, topk>>

\* Lines 109-116.
FinalPackage ==
    /\ pc = "final_package"
    /\ result' = [kind |-> "dict",
                  projected_age |-> local.projected_age,
                  health_increase_percent |-> RoundHalfEven(local.health_percent_increase, 100),
                  predicted_salary |-> PackagedSalary(local.predicted_salary),
                  recommended_jobs |-> local.recommended_jobs,
                  time_projection_months |-> projection_months]
    /\ pc' = "engine_returned"
    /\ UNCHANGED <<argsortTie, salaryFile, jobFile, request, response, user_input_data,
                   projection_months, local, probe, callerProfile, firstCall, hcall, topk>>

Engine ==
    \/ TimeProjection
    \/ HealthPrediction
    \/ SetupDataFrame
    \/ SalaryLoad
    \/ SalaryPredict
    \/ JobLoad
    \/ JobPredict
    \/ FinalPackage

---------------------------------------------------------------------------
(* 5. handle_prediction *)

SupportedMonths == {6, 24, 60}

\* isinstance(projection_months, int) and projection_months in [6, 24, 60];
\* a bool is an int in Python, and True == 1.
MonthsAccepted(m) == m.type \in {"int", "bool"} /\ m.v \in SupportedMonths

\* all(key in data for key in ['user_data', 'projection_months'])
HasBothKeys(req) == {"user_data", "projection_months"} \subseteq req.keys

ReceiveRequest ==
    /\ pc \in {"idle", "responded"}
    /\ probe.served < MaxRequests
    /\ \E req \in Requests : request' = req
    /\ response' = NoResponse
    /\ user_input_data' = AnyProfile
    /\ callerProfile' = AnyProfile
    /\ projection_months' = 0
    /\ local' = LocalsAtEntry
    /\ result' = NoResult
    /\ probe' = ProbeAtEntry(FALSE)
    /\ pc' = "validate"
    /\ UNCHANGED <<argsortTie, salaryFile, jobFile, firstCall, hcall, topk>>

\* Lines 133-134.
RejectNotJson ==
    /\ pc = "validate"
    /\ ~request.is_json
    /\ response' = ErrorResponse(400, "Request must be JSON")
    /\ pc' = "responded"
    /\ UNCHANGED <<argsortTie, salaryFile, jobFile, request, user_input_data,
                   projection_months, local, result, probe, callerProfile, firstCall,
                   hcall, topk>>

\* Line 139 on a body that parses to None or a number: `key in data` raises
\* TypeError outside the try of lines 148-154, and Flask answers 500.
RaiseOnScalarBody ==
    /\ pc = "validate"
    /\ request.is_json
    /\ request.json \in {"null", "number"}
    /\ response' = ErrorResponse(500, "TypeError")
    /\ pc' = "responded"
    /\ UNCHANGED <<argsortTie, salaryFile, jobFile, request, user_input_data,
                   projection_months, local, result, probe, callerProfile, firstCall,
                   hcall, topk>>

\* Lines 139-140.
RejectMissingKeys ==
    /\ pc = "validate"
    /\ request.is_json
    /\ request.json \in {"list", "object"}
    /\ ~HasBothKeys(request)
    /\ response' = ErrorResponse(400, "Missing 'user_data' or 'projection_months'.")
    /\ pc' = "responded"
    /\ UNCHANGED <<argsortTie, salaryFile, jobFile, request, user_input_data,
                   projection_months, local, result, probe, callerProfile, firstCall,
                   hcall, topk>>

\* Lines 142-146.
RejectInvalidMonths ==
    /\ pc = "validate"
    /\ request.is_json
    /\ request.json \in {"list", "object"}
    /\ HasBothKeys(request)
    /\ ~MonthsAccepted(request.projection_months)
    /\ response' = ErrorResponse(400, "Invalid 'projection_months'. Must be 6, 24, or 60.")
    /\ pc' = "responded"
    /\ UNCHANGED <<argsortTie, salaryFile, jobFile, request, user_input_data,
                   projection_months, local, result, probe, callerProfile, firstCall,
                   hcall, topk>>

\* Lines 142-150: validation passed, predict_future_twin is entered.
CallEngine ==
    /\ pc = "validate"
    /\ request.is_json
    /\ request.json \in {"list", "object"}
    /\ HasBothKeys(request)
    /\ MonthsAccepted(request.projection_months)
    /\ user_input_data' = request.user_data
    /\ callerProfile' = request.user_data
    /\ projection_months' = request.projection_months.v
    /\ probe' = [probe EXCEPT !.engine_entered = TRUE]
    /\ pc' = "time_projection"
    /\ UNCHANGED <<argsortTie, salaryFile, jobFile, request, response, local, result,
                   firstCall, hcall, topk>>

\* Line 151.
RespondResult ==
    /\ pc = "engine_returned"
    /\ response' = [status |-> 200, body |-> result]
    /\ pc' = "responded"
    /\ UNCHANGED <<argsortTie, salaryFile, jobFile, request, user_input_data,
                   projection_months, local, result, probe, callerProfile, firstCall,
                   hcall, topk>>

\* Lines 152-154.
RespondServerError ==
    /\ pc = "engine_raised"
    /\ response' = ErrorResponse(500, result.exc)
    /\ pc' = "responded"
    /\ UNCHANGED <<argsortTie, salaryFile, jobFile, request, user_input_data,
                   projection_months, local, result, probe, callerProfile, firstCall,
                   hcall, topk>>

handle_prediction ==
    \/ ReceiveRequest
    \/ RejectNotJson
    \/ RaiseOnScalarBody
    \/ RejectMissingKeys
    \/ RejectInvalidMonths
    \/ CallEngine
    \/ RespondResult
    \/ RespondServerError

---------------------------------------------------------------------------
(* 6. A caller that uses predict_future_twin as a function *)

NoCall == [kind |-> "none"]

\* A call with a dict the caller builds for it.
DirectCallNew ==
    /\ pc = "idle"
    /\ probe.served < MaxRequests
    /\ \E p \in DirectProfiles, h \in DirectHorizons :
          /\ callerProfile' = p
          /\ user_input_data' = p
          /\ projection_months' = h
    /\ local' = LocalsAtEntry
    /\ result' = NoResult
    /\ probe' = ProbeAtEntry(TRUE)
    /\ pc' = "time_projection"
    /\ UNCHANGED <<argsortTie, salaryFile, jobFile, request, response, firstCall,
                   hcall, topk>>

\* Another call with the dict object of the call before.
DirectCallAgain ==
    /\ pc = "idle"
    /\ probe.served >= 1
    /\ probe.served < MaxRequests
    /\ \E h \in DirectHorizons : projection_months' = h
    /\ local' = LocalsAtEntry
    /\ result' = NoResult
    /\ probe' = ProbeAtEntry(TRUE)
    /\ pc' = "time_projection"
    /\ UNCHANGED <<argsortTie, salaryFile, jobFile, request, response, user_input_data,
                   callerProfile, firstCall, hcall, topk>>

\* The call is over; the first one of a run is kept for comparison.
CallerReceives ==
    /\ pc \in {"engine_returned", "engine_raised"}
    /\ firstCall' = IF firstCall.kind = "none"
                    THEN [kind |-> "call", profile |-> callerProfile,
                          months |-> projection_months, result |-> result]
                    ELSE firstCall
    /\ pc' = "idle"
    /\ UNCHANGED <<argsortTie, salaryFile, jobFile, request, response, user_input_data,
                   projection_months, local, result, probe, callerProfile, hcall, topk>>

---------------------------------------------------------------------------
(* 7. Applications of the two pure computations *)

SleepGrid == 0..MaxSleepTenths

NoHealthCall == [arg |-> 0, ret |-> 0, prev_arg |-> 0, prev_ret |-> 0, calls |-> 0]

\* sleep_factor = predict_health_increase(s); the call before is kept.
HealthCall ==
    /\ \E s \in SleepGrid :
          hcall' = [arg |-> s, ret |-> predict_health_increase(s),
                    prev_arg |-> hcall.arg, prev_ret |-> hcall.ret,
                    calls |-> Min(hcall.calls + 1, 2)]
    /\ UNCHANGED <<argsortTie, salaryFile, jobFile, request, response, pc,
                   user_input_data, projection_months, local, result, probe,
                   callerProfile, firstCall, topk>>

NoTopK == [classes |-> <<>>, probas |-> <<>>, jobs |-> <<>>, done |-> FALSE]

\* The aligned (classes_, probas) pairs of a classifier with n classes.
Sum(p) == IF Len(p) = 0 THEN 0 ELSE LET S[k \in 0..Len(p)] == IF k = 0 THEN 0 ELSE S[k - 1] + p[k] IN S[Len(p)]

ClassifierOutputs ==
    UNION { { [classes |-> [i \in 1..n |-> ClassNames[i]], probas |-> p,
               jobs |-> <<>>, done |-> FALSE] :
              p \in { q \in [1..n -> 0..MaxProb] : Sum(q) > 0 } } : n \in 1..MaxClasses }

TieOrders == Permutations(1..MaxClasses)

\* Lines 101-102 on the classifier's output.
SelectTop ==
    /\ ~topk.done
    /\ topk' = [topk EXCEPT
                   !.jobs = JobsAt(topk.classes, TopIndices(topk.probas, argsortTie)),
                   !.done = TRUE]
    /\ UNCHANGED <<argsortTie, salaryFile, jobFile, request, response, pc,
                   user_input_data, projection_months, local, result, probe,
                   callerProfile, firstCall, hcall>>

---------------------------------------------------------------------------
(* 8. Specifications *)

\* The sort orders the engine specifications start from: a stable sort and
\* one that leaves equal keys in reverse.
EngineTieOrders ==
    { [i \in 1..MaxClasses |-> i], [i \in 1..MaxClasses |-> MaxClasses + 1 - i] }

ProcessStart ==
    /\ request = CHOOSE r \in Requests : ~r.is_json
    /\ response = NoResponse
    /\ pc = "idle"
    /\ user_input_data = AnyProfile
    /\ projection_months = 0
    /\ local = LocalsAtEntry
    /\ result = NoResult
    /\ probe = ProbeAtStart
    /\ callerProfile = AnyProfile
    /\ firstCall = NoCall

Init ==
    /\ argsortTie \in EngineTieOrders
    /\ salaryFile \in SalaryArtifacts
    /\ jobFile \in JobArtifacts
    /\ ProcessStart
    /\ hcall = NoHealthCall
    /\ topk = NoTopK

\* The service: requests arrive at handle_prediction, one after the other.
Next == handle_prediction \/ Engine

Spec == Init /\ [][Next]_vars

\* predict_future_twin called directly.
NextEngine == DirectCallNew \/ DirectCallAgain \/ CallerReceives \/ Engine

SpecEngine == Init /\ [][NextEngine]_vars

\* predict_health_increase alone.
InitHealth ==
    /\ argsortTie = [i \in 1..MaxClasses |-> i]
    /\ salaryFile = CHOOSE a \in SalaryArtifacts : a.kind = "absent"
    /\ jobFile = CHOOSE a \in JobArtifacts : a.kind = "absent"
    /\ ProcessStart
    /\ hcall = NoHealthCall
    /\ topk = NoTopK

SpecHealth == InitHealth /\ [][HealthCall]_vars

\* The top-3 selection alone, over every classifier output and tie order.
InitTopK ==
    /\ argsortTie \in TieOrders
    /\ salaryFile = CHOOSE a \in SalaryArtifacts : a.kind = "absent"
    /\ jobFile = CHOOSE a \in JobArtifacts : a.kind = "absent"
    /\ ProcessStart
    /\ hcall = NoHealthCall
    /\ topk \in ClassifierOutputs

SpecTopK == InitTopK /\ [][SelectTop]_vars

---------------------------------------------------------------------------
(* 9. Properties *)

AfterSetup ==
    {"salary_load", "salary_predict", "job_load", "job_predict", "final_package",
     "engine_returned"}

ResultFields ==
    {"kind", "projected_age", "health_increase_percent", "predicted_salary",
     "recommended_jobs", "time_projection_months"}

\* C1: failure isolation.  When the profile carries every required
\* attribute and exactly one of the two predictor blocks took its except
\* branch, the call returns a dict with all five fields, the failed block's
\* field is its sentinel ("N/A", ["N/A"]), and the four other fields are what
\* the inputs give when nothing fails.
C1_FailureIsolation ==
    (/\ pc = "engine_returned"
     /\ FeatureColumns \subseteq DOMAIN callerProfile
     /\ probe.salary_except # probe.job_except)
    =>
    LET age == callerProfile.age + (projection_months \div 12)
        tenure == callerProfile.tenure_months + projection_months
        X == [callerProfile EXCEPT !.age = age, !.tenure_months = tenure]
        sleep == IF "avg_sleep_hours" \in DOMAIN callerProfile
                 THEN callerProfile.avg_sleep_hours ELSE 75
    IN  /\ result.kind = "dict"
        /\ DOMAIN result = ResultFields
        /\ result.projected_age = age
        /\ result.health_increase_percent = predict_health_increase(sleep) - 1000
        /\ result.time_projection_months = projection_months
        /\ probe.salary_except =>
              /\ result.predicted_salary = NotAvailable
              /\ result.recommended_jobs =
                    JobsAt(jobFile.classes, TopIndices(PredictProba(jobFile, X), argsortTie))
        /\ probe.job_except =>
              /\ result.recommended_jobs = <<"N/A">>
              /\ result.predicted_salary =
                    PackagedSalary(Float64(SalaryEstimate(salaryFile, X)))

\* C1, reached: the salary block failed, the jobs came out as a top three.
C1_Witness ==
    /\ pc = "engine_returned"
    /\ FeatureColumns \subseteq DOMAIN callerProfile
    /\ probe.salary_except /\ ~probe.job_except
    /\ result.predicted_salary = NotAvailable
    /\ Len(result.recommended_jobs) = 3

\* C2: a profile without one of education, location, title, industry,
\* remote_flag makes the whole call fail: predict_future_twin raises and
\* returns no result record.
C2_MissingAttributeFails ==
    (/\ pc \in {"engine_returned", "engine_raised", "responded"}
     /\ probe.engine_entered
     /\ ~(CategoricalOrBoolean \subseteq DOMAIN callerProfile))
    => result.kind = "raise"

\* C3 as claimed: the labels are those of the first min(3, n) indices in
\* the order probability descending, ties by ascending original index.
C3_TiesByAscendingIndex ==
    topk.done =>
    LET probas == topk.probas
        n == Len(probas)
        Before(i, j) == \/ probas[i] > probas[j]
                        \/ probas[i] = probas[j] /\ i < j
        order == [k \in 1..n |->
                    CHOOSE i \in 1..n : Cardinality({j \in 1..n : Before(j, i)}) + 1 = k]
    IN  topk.jobs = [k \in 1..Min(3, n) |-> topk.classes[order[k]]]

\* C3, amended: the labels are min(3, n) distinct labels in order of
\* non-increasing probability, and no label left out has a higher
\* probability than one returned; the order among equal probabilities is
\* not fixed.
C3_TopByProbability ==
    topk.done =>
    LET n == Len(topk.probas)
        m == Len(topk.jobs)
        at(k) == CHOOSE i \in 1..n : topk.classes[i] = topk.jobs[k]
    IN  /\ m = Min(3, n)
        /\ \A k \in 1..m : \E i \in 1..n : topk.classes[i] = topk.jobs[k]
        /\ \A k, l \in 1..m : k # l => topk.jobs[k] # topk.jobs[l]
        /\ \A k \in 1..(m - 1) : topk.probas[at(k)] >= topk.probas[at(k + 1)]
        /\ \A i \in 1..n :
              (\A k \in 1..m : at(k) # i) =>
                 \A k \in 1..m : topk.probas[i] <= topk.probas[at(k)]

\* C3, reached: on (1, 2, 2, 1) a stable argsort, reversed, gives C, B, D.
C3_Witness ==
    /\ topk.done
    /\ topk.probas = <<1, 2, 2, 1>>
    /\ topk.jobs = <<"C", "B", "D">>

\* C4: predicted_salary is the rounded estimate whenever the salary block
\* did not fail, whatever the estimate is, and "N/A" when it failed.
C4_SalaryReported ==
    pc = "engine_returned" =>
       IF probe.salary_except
       THEN result.predicted_salary = NotAvailable
       ELSE result.predicted_salary =
               Rounded(RoundHalfEven(SalaryEstimate(salaryFile, local.twin_df) * 100, 8))

\* C5: on the grid of tenths of an hour the factor is 1 + inc(s)/100 with
\* inc(s) = 10 on [7.0, 8.5], max(0, 10 - 5(7.0 - s)) below and
\* max(0, 10 - 2(s - 8.5)) above; it is 1.10 on the band, within
\* [1.0, 1.10] everywhere, non-decreasing below 7.0 and non-increasing
\* above 8.5.
C5_HealthFactor ==
    hcall.calls >= 1 =>
    LET s == hcall.arg
        f == hcall.ret
        inc == IF s < 70 THEN Max(0, 100 - 5 * (70 - s))
               ELSE IF s > 85 THEN Max(0, 100 - 2 * (s - 85))
               ELSE 100
    IN  /\ f = 1000 + inc
        /\ (70 <= s /\ s <= 85) => f = 1100
        /\ 1000 <= f /\ f <= 1100
        /\ hcall.calls >= 2 =>
              /\ (hcall.prev_arg <= s /\ s < 70) => hcall.prev_ret <= f
              /\ (85 < hcall.prev_arg /\ hcall.prev_arg <= s) => hcall.prev_ret >= f

\* C5, reached: two calls below the band, the factor rising with the sleep.
C5_Witness ==
    /\ hcall.calls >= 2
    /\ hcall.prev_arg < hcall.arg /\ hcall.arg < 70
    /\ 1000 < hcall.prev_ret /\ hcall.prev_ret < hcall.ret

\* C6: the projected age is age + floor(horizon / 12), the tenure in the
\* record both predictors get is tenure_months + horizon, and the result
\* carries that age and the horizon unchanged.
C6_TemporalProjection ==
    pc \in AfterSetup =>
    LET added == local.twin_df.age - callerProfile.age
    IN  /\ 12 * added <= projection_months /\ projection_months < 12 * (added + 1)
        /\ projection_months = 6 => added = 0
        /\ projection_months = 24 => added = 2
        /\ local.twin_df.tenure_months = callerProfile.tenure_months + projection_months
        /\ pc = "engine_returned" =>
              /\ result.projected_age = callerProfile.age + added
              /\ result.time_projection_months = projection_months

\* C6, reached: six months on age 30, tenure 0.
C6_Witness ==
    /\ pc = "engine_returned"
    /\ projection_months = 6
    /\ callerProfile.age = 30 /\ callerProfile.tenure_months = 0
    /\ result.projected_age = 30
    /\ local.twin_df.tenure_months = 6

\* C7: the engine runs only for a validated request, so only with a
\* horizon in {6, 24, 60}; a request that is not JSON, lacks a key or has
\* another projection_months is answered 400 without the engine or a
\* predictor being invoked.
C7_ValidatedBeforeEngine ==
    LET valid == /\ request.is_json
                 /\ HasBothKeys(request)
                 /\ request.projection_months.type = "int"
                 /\ request.projection_months.v \in {6, 24, 60}
    IN  /\ probe.engine_entered => valid /\ projection_months \in {6, 24, 60}
        /\ (pc = "responded" /\ ~valid) =>
              /\ response.status = 400
              /\ ~probe.engine_entered
              /\ probe.salary_predicts = 0 /\ probe.job_predicts = 0

\* C8: idempotence.  A call with the profile and horizon of the first call
\* of the run returns what that call returned, whatever was called in
\* between, and the dict passed in is left as the caller built it.
C8_Idempotence ==
    /\ pc # "idle" => user_input_data = callerProfile
    /\ (/\ pc \in {"engine_returned", "engine_raised"}
        /\ firstCall.kind = "call"
        /\ callerProfile = firstCall.profile
        /\ projection_months = firstCall.months)
       => result = firstCall.result

\* C8, reached: the third call of a run repeats the first one's input.
C8_Witness ==
    /\ pc = "engine_returned"
    /\ probe.served = 3
    /\ firstCall.kind = "call"
    /\ callerProfile = firstCall.profile
    /\ projection_months = firstCall.months
    /\ result.kind = "dict"

\* C9: in a call that reaches the prediction step each predictor is
\* invoked at most once, exactly once when its artifact is available, and
\* the result is assembled only after both blocks are over.
C9_OncePerCall ==
    /\ pc \in {"salary_load", "salary_predict", "job_load", "job_predict", "final_package"}
          => result.kind = "none"
    /\ pc \in AfterSetup => probe.salary_predicts <= 1 /\ probe.job_predicts <= 1
    /\ pc \in {"final_package", "engine_returned"} =>
          /\ salaryFile.kind # "absent" => probe.salary_predicts = 1
          /\ jobFile.kind # "absent" => probe.job_predicts = 1

\* C10: over the requests one process serves, each of the two artifacts is
\* loaded from storage at most once.
C10_LoadedOnce ==
    /\ probe.salary_loads <= 1
    /\ probe.job_loads <= 1

====
